---- MODULE Spec2Model ----
(***************************************************************************)
(* Model of the two Streamlit dashboards of the repository.                *)
(*                                                                         *)
(*   GUI.py       upload -> clean -> filter -> (optional) store to MongoDB *)
(*   TOOLSGUI.py  determine_job_level over the "Experience (Yrs)" column   *)
(*                                                                         *)
(* Text is a sequence of atoms.  An atom is one character or one run of    *)
(* characters of the same regex class (a run of word characters such as    *)
(* "Cairo", the blank " ", the comma ",", the hyphen "-").  A cell of the  *)
(* dataframe is <<>> (NaN / None) or <<v>> (the value v).  A salary is an  *)
(* integer number of 1/Scale units, so that fractional salaries exist.     *)
(***************************************************************************)
EXTENDS Integers, Sequences, FiniteSets, TLC

VARIABLES phase, df, df_final, missing, salary_min, salary_max,
          selected_country, selected_city, selected_seniority, salary_range,
          filtered_df, collection, store_status, store_log,
          experience, job_level

gui_vars == <<phase, df, df_final, missing, salary_min, salary_max,
              selected_country, selected_city, selected_seniority,
              salary_range, filtered_df, collection, store_status, store_log>>

tools_vars == <<experience, job_level>>

vars == <<gui_vars, tools_vars>>

----------------------------------------------------------------------------
(* Bounds of the model *)

MaxRows == 2
MaxSalaryLen == 3
MaxLocationLen == 6
MaxTitleLen == 3
MaxToolRows == 2
MaxExperience == 60

----------------------------------------------------------------------------
(* Generic helpers on cells and sequences *)

NaN == <<>>

Some(v) == <<v>>

IsNull(c) == c = NaN

Val(c) == c[1]

\* all sequences over S of length 1..n
RECURSIVE SeqsUpTo(_, _)
SeqsUpTo(S, n) ==
    IF n = 0 THEN {}
    ELSE LET shorter == SeqsUpTo(S, n - 1)
         IN  {<<a>> : a \in S} \cup shorter
               \cup {Append(s, a) : s \in {t \in shorter : Len(t) = n - 1}, a \in S}

\* the subsequence of s at the positions in keep, in order
RECURSIVE PickFrom(_, _, _)
PickFrom(s, keep, i) ==
    IF i > Len(s) THEN <<>>
    ELSE IF i \in keep THEN <<s[i]>> \o PickFrom(s, keep, i + 1)
    ELSE PickFrom(s, keep, i + 1)

Pick(s, keep) == PickFrom(s, keep, 1)

Range(s) == {s[i] : i \in DOMAIN s}

RECURSIVE Pow10(_)
Pow10(n) == IF n = 0 THEN 1 ELSE 10 * Pow10(n - 1)

\* str.strip(): remove leading and trailing whitespace
IsSpace(a) == a = " "

RECURSIVE LStrip(_)
LStrip(s) == IF s # <<>> /\ IsSpace(Head(s)) THEN LStrip(Tail(s)) ELSE s

RECURSIVE RStrip(_)
RStrip(s) ==
    IF s # <<>> /\ IsSpace(s[Len(s)]) THEN RStrip(SubSeq(s, 1, Len(s) - 1)) ELSE s

Strip(s) == RStrip(LStrip(s))

----------------------------------------------------------------------------
(* Column names.  " " is whitespace inside or around a name. *)

SalaryCol == <<"Salary", " ", "(USD)">>
LocationCol == <<"Location">>
TitleCol == <<"Job", " ", "Title">>
CompanyCol == <<"Company", " ", "Name">>
LinkCol == <<"Link">>
SkillsCol == <<"Skills">>

required_columns == {SalaryCol, LocationCol, TitleCol, CompanyCol, LinkCol}

----------------------------------------------------------------------------
(* Salary cleaning: .astype(str).str.replace("[$,]", "") and pd.to_numeric *)

Digits == {"0", "1", "2", "3", "4", "5", "6", "7", "8", "9"}

DigitVal(d) ==
    CASE d = "0" -> 0 [] d = "1" -> 1 [] d = "2" -> 2 [] d = "3" -> 3
      [] d = "4" -> 4 [] d = "5" -> 5 [] d = "6" -> 6 [] d = "7" -> 7
      [] d = "8" -> 8 [] d = "9" -> 9

\* a salary is stored in units of 1/Scale, enough for every fraction that a
\* text of MaxSalaryLen characters can spell
Scale == Pow10(MaxSalaryLen)

\* .astype(str): NaN becomes the text "nan"
AsTypeStr(c) == IF IsNull(c) THEN <<"nan">> ELSE Val(c)

\* .str.replace("[$,]", "", regex=True)
RemoveCurrency(s) == SelectSeq(s, LAMBDA a : a \notin {"$", ","})

RECURSIVE DigitsValue(_)
DigitsValue(s) ==
    IF s = <<>> THEN 0
    ELSE 10 * DigitsValue(SubSeq(s, 1, Len(s) - 1)) + DigitVal(s[Len(s)])

\* pd.to_numeric(errors="coerce") of one text: [-]digits[.digits] with at
\* least one digit is a number, anything else (also "" and "nan") is NaN
ToNumeric(s) ==
    LET neg  == s # <<>> /\ s[1] = "-"
        body == IF neg THEN Tail(s) ELSE s
        dots == {i \in DOMAIN body : body[i] = "."}
        ok   == /\ body # <<>>
                /\ \A i \in DOMAIN body : body[i] \in Digits \cup {"."}
                /\ Cardinality(dots) <= 1
                /\ \E i \in DOMAIN body : body[i] \in Digits
        dot  == IF dots = {} THEN Len(body) + 1 ELSE CHOOSE i \in dots : TRUE
        ip   == SubSeq(body, 1, dot - 1)
        fp   == SubSeq(body, dot + 1, Len(body))
        mag  == DigitsValue(ip) * Scale + DigitsValue(fp) * (Scale \div Pow10(Len(fp)))
    IN  IF ok THEN Some(IF neg THEN 0 - mag ELSE mag) ELSE NaN

CleanSalary(c) == ToNumeric(RemoveCurrency(AsTypeStr(c)))

----------------------------------------------------------------------------
(* Location, company and skills cleaning of the "Skills" branch *)

\* .str.replace("-", "").str.strip()
RemoveHyphens(s) == Strip(SelectSeq(s, LAMBDA a : a # "-"))

\* .str.replace(r"\s*-\s*$", "", regex=True).str.strip()
TrimTrailingDash(s) ==
    LET t == RStrip(s)
    IN  Strip(IF t # <<>> /\ t[Len(t)] = "-"
              THEN RStrip(SubSeq(t, 1, Len(t) - 1))
              ELSE s)

\* .str.split("·")
RECURSIVE SplitOn(_, _)
SplitOn(s, sep) ==
    LET hits == {i \in DOMAIN s : s[i] = sep}
    IN  IF hits = {} THEN <<s>>
        ELSE LET i == CHOOSE k \in hits : \A l \in hits : k <= l
             IN  <<SubSeq(s, 1, i - 1)>> \o SplitOn(SubSeq(s, i + 1, Len(s)), sep)

SkillsList(s) == SplitOn(s, "·")

----------------------------------------------------------------------------
(* Regex extraction of Country, Seniority and City *)

\* \w: a run of word characters is any atom that is not one of the
\* punctuation or blank atoms (the underscore is a word character)
NonWordAtoms == {" ", ",", "-", "·", "$", ".", "/"}

IsWord(a) == a \notin NonWordAtoms

\* .str.extract(r',\s*(\w+)$'): a comma, blanks, then word characters up to
\* the end of the text; the group is the run of word characters
ExtractCountry(s) ==
    LET ok(i) == /\ s[i] = ","
                 /\ LET rest == LStrip(SubSeq(s, i + 1, Len(s)))
                    IN  /\ rest # <<>>
                        /\ \A k \in DOMAIN rest : IsWord(rest[k])
        hits == {i \in DOMAIN s : ok(i)}
    IN  IF hits = {} THEN NaN
        ELSE LET i == CHOOSE k \in hits : \A l \in hits : k <= l
             IN  Some(LStrip(SubSeq(s, i + 1, Len(s))))

\* .str.extract(r'^([^,]+)'): the longest non-empty prefix without a comma
ExtractCity(s) ==
    LET commas == {i \in DOMAIN s : s[i] = ","}
        stop   == IF commas = {} THEN Len(s) + 1
                  ELSE CHOOSE k \in commas : \A l \in commas : k <= l
    IN  IF stop = 1 THEN NaN ELSE Some(SubSeq(s, 1, stop - 1))

\* the five keywords of the pattern and the spellings of them that the
\* titles of the model contain; Keyword maps a spelling to its keyword
Keywords == {"Senior", "Junior", "Intern", "Lead", "Manager"}

Keyword(a) ==
    CASE a \in {"Senior", "senior", "SENIOR"} -> "Senior"
      [] a \in {"Junior", "junior", "JUNIOR"} -> "Junior"
      [] a \in {"Intern", "intern", "INTERN"} -> "Intern"
      [] a \in {"Lead", "lead", "LEAD"} -> "Lead"
      [] a \in {"Manager", "manager", "MANAGER"} -> "Manager"
      [] OTHER -> "none"

\* re.IGNORECASE: the atom spells a keyword in any letter case
MatchesKeyword(a) == Keyword(a) \in Keywords

\* .str.extract(r'\b(Senior|Junior|Intern|Lead|Manager)\b', flags=re.IGNORECASE):
\* the leftmost keyword with a word boundary on both sides; the group is the
\* text as it is spelled in the title
ExtractSeniority(s) ==
    LET ok(i) == /\ MatchesKeyword(s[i])
                 /\ (i = 1 \/ ~IsWord(s[i - 1]))
                 /\ (i = Len(s) \/ ~IsWord(s[i + 1]))
        hits == {i \in DOMAIN s : ok(i)}
    IN  IF hits = {} THEN NaN
        ELSE LET i == CHOOSE k \in hits : \A l \in hits : k <= l
             IN  Some(<<s[i]>>)

----------------------------------------------------------------------------
(* The dataframe: [cols |-> names, rows |-> rows of cells, one per column] *)

\* dropna without effect: every column stays
DropNaColumns_KeepAll(t) == t

\* df.dropna(axis=1, how='all'): keep the columns with a value in some row
DropNaColumns(t) ==
    LET keep == {j \in DOMAIN t.cols : \E i \in DOMAIN t.rows : ~IsNull(t.rows[i][j])}
    IN  [cols |-> Pick(t.cols, keep),
         rows |-> [i \in DOMAIN t.rows |-> Pick(t.rows[i], keep)]]

\* df.columns.str.strip()
StripColumns(t) == [t EXCEPT !.cols = [j \in DOMAIN t.cols |-> Strip(t.cols[j])]]

\* df.drop_duplicates(): of the rows equal in every column keep the first
DropDuplicates(t) ==
    [t EXCEPT !.rows =
        Pick(t.rows, {i \in DOMAIN t.rows : \A j \in 1..(i - 1) : t.rows[j] # t.rows[i]})]

\* lines 26-28
BasicCleaning(t) == DropDuplicates(StripColumns(DropNaColumns(t)))

Columns(t) == Range(t.cols)

\* required_columns - set(df.columns)
MissingColumns(t) == required_columns \ Columns(t)

Cell(t, row, name) == row[CHOOSE j \in DOMAIN t.cols : t.cols[j] = name]

\* df_final = df.copy(), one record per row
Records(t) ==
    [i \in DOMAIN t.rows |->
        [Salary      |-> Cell(t, t.rows[i], SalaryCol),
         Location    |-> Cell(t, t.rows[i], LocationCol),
         JobTitle    |-> Cell(t, t.rows[i], TitleCol),
         CompanyName |-> Cell(t, t.rows[i], CompanyCol),
         Link        |-> Cell(t, t.rows[i], LinkCol),
         Skills      |-> IF SkillsCol \in Columns(t)
                         THEN Cell(t, t.rows[i], SkillsCol) ELSE NaN,
         Country     |-> NaN,
         Seniority   |-> NaN,
         City        |-> NaN]]

\* lines 41-42
SalaryCleaning(recs) ==
    [i \in DOMAIN recs |-> [recs[i] EXCEPT !.Salary = CleanSalary(@)]]

\* drop_duplicates(subset=["Link"]): of the records with one Link keep the first
DropDuplicateLinks(recs) ==
    Pick(recs, {i \in DOMAIN recs : \A j \in 1..(i - 1) : recs[j].Link # recs[i].Link})

\* lines 45-50: only when the table has a Skills column
SkillsProcessing(t, recs) ==
    IF SkillsCol \in Columns(t)
    THEN LET a == [i \in DOMAIN recs |->
                     [recs[i] EXCEPT
                        !.Location = IF IsNull(@) THEN NaN ELSE Some(RemoveHyphens(Val(@))),
                        !.Skills = IF IsNull(@) THEN NaN ELSE Some(SkillsList(Val(@)))]]
             b == DropDuplicateLinks(a)
         IN  [i \in DOMAIN b |->
                [b[i] EXCEPT
                   !.CompanyName = IF IsNull(@) THEN NaN ELSE Some(TrimTrailingDash(Val(@)))]]
    ELSE recs

\* lines 53-55: .str.extract of a NaN cell is NaN
LocationProcessing(recs) ==
    [i \in DOMAIN recs |->
        LET loc   == recs[i].Location
            title == recs[i].JobTitle
        IN  [recs[i] EXCEPT
               !.Country = IF IsNull(loc) THEN NaN ELSE ExtractCountry(Val(loc)),
               !.Seniority = IF IsNull(title) THEN NaN ELSE ExtractSeniority(Val(title)),
               !.City = IF IsNull(loc) THEN NaN ELSE ExtractCity(Val(loc))]]

\* lines 31-55 on a table that passed the column check
Derive(t) == LocationProcessing(SkillsProcessing(t, SalaryCleaning(Records(t))))

----------------------------------------------------------------------------
(* Filter interface *)

\* .dropna().unique(): the values of the cells that are not NaN
Unique(cells) == {Val(c) : c \in {x \in cells : ~IsNull(x)}}

available_countries(recs) == Unique({recs[i].Country : i \in DOMAIN recs})
available_cities(recs) == Unique({recs[i].City : i \in DOMAIN recs})
available_seniority(recs) == Unique({recs[i].Seniority : i \in DOMAIN recs})

\* the salaries that min() and max() see: NaN is skipped
Salaries(recs) == Unique({recs[i].Salary : i \in DOMAIN recs})

SetMin(S) == CHOOSE x \in S : \A y \in S : x <= y
SetMax(S) == CHOOSE x \in S : \A y \in S : x >= y

\* int(): truncation toward zero, in whole dollars
Trunc(v) == IF v >= 0 THEN v \div Scale ELSE 0 - ((0 - v) \div Scale)

\* the upper end rounded up instead of truncated
SalaryMax_RoundedUp(recs) == Trunc(SetMax(Salaries(recs))) + 1

\* line 75
SalaryMin(recs) == Trunc(SetMin(Salaries(recs)))
SalaryMax(recs) == Trunc(SetMax(Salaries(recs)))

\* Series.isin(selection): NaN is in no selection
IsIn(c, selection) == ~IsNull(c) /\ Val(c) \in selection

\* the upper comparison strict
InSalaryRange_StrictUpper(c, range) ==
    /\ ~IsNull(c)
    /\ Val(c) >= range[1] * Scale
    /\ Val(c) < range[2] * Scale

\* NaN passes the range
InSalaryRange_NaNPasses(c, range) ==
    \/ IsNull(c)
    \/ /\ Val(c) >= range[1] * Scale
       /\ Val(c) <= range[2] * Scale

\* lines 86-87: both comparisons are False on NaN
InSalaryRange(c, range) ==
    /\ ~IsNull(c)
    /\ Val(c) >= range[1] * Scale
    /\ Val(c) <= range[2] * Scale

\* lines 79-87
ApplyFilters(recs, countries, cities, seniority, range) ==
    LET f0 == recs
        f1 == IF countries # {}
              THEN SelectSeq(f0, LAMBDA r : IsIn(r.Country, countries)) ELSE f0
        f2 == IF cities # {}
              THEN SelectSeq(f1, LAMBDA r : IsIn(r.City, cities)) ELSE f1
        f3 == IF seniority # {}
              THEN SelectSeq(f2, LAMBDA r : IsIn(r.Seniority, seniority)) ELSE f2
    IN  SelectSeq(f3, LAMBDA r : InSalaryRange(r.Salary, range))

----------------------------------------------------------------------------
(* Uploaded tables of the model *)

AllColumns == <<SalaryCol, LocationCol, TitleCol, CompanyCol, LinkCol, SkillsCol>>

Row(salary, location, title, link) ==
    <<salary, location, title, Some(<<"Acme", " ", "-">>), link,
      Some(<<"SQL", " ", "·", " ", "Python">>)>>

L1 == Some(<<"http://job/1">>)
L2 == Some(<<"http://job/2">>)

CairoEgypt == Some(<<"Cairo", ",", " ", "Egypt">>)
Remote == Some(<<"Remote">>)

BaseRows ==
    { Row(Some(<<"$", "1">>), CairoEgypt, Some(<<"Senior", " ", "Dev">>), L1),
      Row(Some(<<"2", ".", "5">>), Remote, Some(<<"Dev">>), L2),
      Row(Some(<<"N", "/", "A">>), Some(<<"Cairo", "-", ",", " ", "Egypt">>),
          Some(<<"Dev">>), L1),
      Row(Some(<<"2">>), Remote, Some(<<"Dev">>), L1),
      Row(NaN, NaN, NaN, L2) }

\* how a column of AllColumns appears in an uploaded table
ColumnModes == {"absent", "plain", "padded", "allnull"}

\* the table with the columns of AllColumns in the modes m and the rows rs
Table(m, rs) ==
    LET keep == {j \in DOMAIN AllColumns : m[j] # "absent"}
        name(j) == IF m[j] = "padded" THEN <<" ">> \o AllColumns[j] \o <<" ">>
                   ELSE AllColumns[j]
        cell(r, j) == IF m[j] = "allnull" THEN NaN ELSE r[j]
    IN  [cols |-> Pick([j \in DOMAIN AllColumns |-> name(j)], keep),
         rows |-> [i \in DOMAIN rs |->
                     Pick([j \in DOMAIN AllColumns |-> cell(rs[i], j)], keep)]]

Plain == [j \in DOMAIN AllColumns |-> "plain"]
NoSkills == [Plain EXCEPT ![6] = "absent"]

FixedRow == Row(Some(<<"2">>), Remote, Some(<<"Dev">>), L2)

\* every header with at least one column, over two fixed rows
HeaderTables ==
    {Table(m, <<Row(Some(<<"$", "1">>), Remote, Some(<<"Dev">>), L1), FixedRow>>) :
        m \in {h \in [DOMAIN AllColumns -> ColumnModes] :
                    \E j \in DOMAIN AllColumns : h[j] # "absent"}}

\* every sequence of 1..MaxRows base rows, with and without a Skills column
RowTables ==
    {Table(m, rs) : m \in {Plain, NoSkills}, rs \in SeqsUpTo(BaseRows, MaxRows)}

\* a table that fails the column check and one without any numeric salary
CornerTables ==
    {Table([Plain EXCEPT ![5] = "absent"], <<FixedRow>>),
     Table(Plain, <<Row(Some(<<"N", "/", "A">>), Remote, Some(<<"Dev">>), L1)>>)}

SalaryAlphabet == {"$", ",", "1", "5", ".", "-", "x"}

\* every salary text of 1..MaxSalaryLen characters, next to a numeric row
SalaryTables ==
    CornerTables \cup
    {Table(m, <<Row(c, Remote, Some(<<"Dev">>), L1), FixedRow>>) :
        m \in {Plain},
        c \in {NaN} \cup {Some(t) : t \in SeqsUpTo(SalaryAlphabet, MaxSalaryLen)}}

LocationAlphabet == {"Cairo", "Egypt", ",", " "}

\* every location text of 1..MaxLocationLen atoms without blanks around it
LocationTables ==
    CornerTables \cup
    {Table(m, <<Row(Some(<<"2">>), c, Some(<<"Dev">>), L1)>>) :
        m \in {Plain, NoSkills},
        c \in {NaN} \cup
              {Some(t) : t \in {u \in SeqsUpTo(LocationAlphabet, MaxLocationLen) :
                                   Strip(u) = u}}}

TitleAlphabet == {"Senior", "senior", "LEAD", "Dev", " ", "-"}

\* every job title of 1..MaxTitleLen atoms
TitleTables ==
    CornerTables \cup
    {Table(m, <<Row(Some(<<"2">>), Remote, c, L1)>>) :
        m \in {Plain},
        c \in {NaN} \cup {Some(t) : t \in SeqsUpTo(TitleAlphabet, MaxTitleLen)}}

\* what the collection holds before the dashboard runs
OldDocument ==
    [Salary |-> Some(7 * Scale), Location |-> Remote, JobTitle |-> Some(<<"Dev">>),
     CompanyName |-> Some(<<"Old">>), Link |-> Some(<<"http://job/0">>),
     Skills |-> NaN, Country |-> NaN, Seniority |-> NaN, City |-> Remote]

----------------------------------------------------------------------------
(* GUI.py: one action per run of the script *)

InitGui(tables) ==
    /\ phase = "uploaded"
    /\ df \in tables
    /\ df_final = <<>>
    /\ missing = {}
    /\ salary_min = 0
    /\ salary_max = 0
    /\ selected_country = {}
    /\ selected_city = {}
    /\ selected_seniority = {}
    /\ salary_range = <<0, 0>>
    /\ filtered_df = <<>>
    /\ collection = <<OldDocument>>
    /\ store_status = "none"
    /\ store_log = <<>>

NoTools ==
    /\ experience = <<>>
    /\ job_level = <<>>

\* lines 35-38: the column check fails, st.error and st.stop; nothing of
\* lines 40-55 runs, so no cleaned record exists
SchemaError ==
    /\ phase = "uploaded"
    /\ MissingColumns(BasicCleaning(df)) # {}
    /\ phase' = "schema_error"
    /\ missing' = MissingColumns(BasicCleaning(df))
    /\ UNCHANGED <<df, df_final, salary_min, salary_max, selected_country,
                   selected_city, selected_seniority, salary_range, filtered_df,
                   collection, store_status, store_log>>

\* line 75: int(nan) raises when no record has a numeric salary
SliderError ==
    /\ phase = "uploaded"
    /\ MissingColumns(BasicCleaning(df)) = {}
    /\ Salaries(Derive(BasicCleaning(df))) = {}
    /\ phase' = "crashed"
    /\ df_final' = Derive(BasicCleaning(df))
    /\ UNCHANGED <<df, missing, salary_min, salary_max, selected_country,
                   selected_city, selected_seniority, salary_range, filtered_df,
                   collection, store_status, store_log>>

\* lines 24-87 with the widgets at their defaults
FirstRun ==
    /\ phase = "uploaded"
    /\ MissingColumns(BasicCleaning(df)) = {}
    /\ Salaries(Derive(BasicCleaning(df))) # {}
    /\ LET recs == Derive(BasicCleaning(df))
       IN  /\ df_final' = recs
           /\ salary_min' = SalaryMin(recs)
           /\ salary_max' = SalaryMax(recs)
           /\ selected_country' = {}
           /\ selected_city' = {}
           /\ selected_seniority' = {}
           /\ salary_range' = <<SalaryMin(recs), SalaryMax(recs)>>
           /\ filtered_df' = ApplyFilters(recs, {}, {}, {},
                                          <<SalaryMin(recs), SalaryMax(recs)>>)
    /\ phase' = "ready"
    /\ UNCHANGED <<df, missing, collection, store_status, store_log>>

\* the slider positions the model tries: the whole dollars next to a salary
SliderStops ==
    {v \in UNION {{Trunc(x), Trunc(x) + 1} : x \in Salaries(df_final)} :
        salary_min <= v /\ v <= salary_max}

\* a rerun after the user changed the sidebar widgets (lines 70-87)
ChangeFilters ==
    /\ phase = "ready"
    /\ \E countries \in SUBSET available_countries(df_final),
          cities \in SUBSET available_cities(df_final),
          seniority \in SUBSET available_seniority(df_final),
          lo \in SliderStops, hi \in SliderStops :
          /\ lo <= hi
          /\ selected_country' = countries
          /\ selected_city' = cities
          /\ selected_seniority' = seniority
          /\ salary_range' = <<lo, hi>>
          /\ filtered_df' = ApplyFilters(df_final, countries, cities, seniority,
                                         <<lo, hi>>)
    /\ store_status' = "none"
    /\ store_log' = <<>>
    /\ UNCHANGED <<phase, df, df_final, missing, salary_min, salary_max, collection>>

\* the filtered view stored instead of the cleaned set
data_to_insert_Filtered == filtered_df

\* df_final.to_dict("records"): one document per record
data_to_insert == df_final

\* the collection cleared before the connection is tested
StoreData_ClearFirst ==
    /\ phase = "ready"
    /\ \/ /\ store_log' = <<"delete_many", "connect">>
          /\ collection' = <<>>
          /\ store_status' = "failed"
       \/ /\ store_log' = <<"delete_many", "connect", "insert_many">>
          /\ \E k \in 0..Len(data_to_insert) :
                collection' = SubSeq(data_to_insert, 1, k)
          /\ store_status' = "failed"
       \/ /\ data_to_insert # <<>>
          /\ store_log' = <<"delete_many", "connect", "insert_many">>
          /\ collection' = data_to_insert
          /\ store_status' = "success"
    /\ UNCHANGED <<phase, df, df_final, missing, salary_min, salary_max,
                   selected_country, selected_city, selected_seniority,
                   salary_range, filtered_df>>

\* lines 177-193: a rerun with the button pressed.  The driver calls run in
\* the order connect, delete_many, insert_many; the first one that raises
\* ends the attempt in the except branch.  store_log lists the calls made.
StoreData ==
    /\ phase = "ready"
    /\ \/ \* client.server_info() raises
          /\ store_log' = <<"connect">>
          /\ collection' = collection
          /\ store_status' = "failed"
       \/ \* collection.delete_many({}) raises, before or after the server cleared
          /\ store_log' = <<"connect", "delete_many">>
          /\ collection' \in {collection, <<>>}
          /\ store_status' = "failed"
       \/ \* collection.insert_many raises after k documents (an empty list always raises)
          /\ store_log' = <<"connect", "delete_many", "insert_many">>
          /\ \E k \in 0..Len(data_to_insert) :
                collection' = SubSeq(data_to_insert, 1, k)
          /\ store_status' = "failed"
       \/ \* every call returns
          /\ data_to_insert # <<>>
          /\ store_log' = <<"connect", "delete_many", "insert_many">>
          /\ collection' = data_to_insert
          /\ store_status' = "success"
    /\ UNCHANGED <<phase, df, df_final, missing, salary_min, salary_max,
                   selected_country, selected_city, selected_seniority,
                   salary_range, filtered_df>>

NextGui ==
    \/ SchemaError
    \/ SliderError
    \/ FirstRun
    \/ ChangeFilters
    \/ StoreData

Next == NextGui /\ UNCHANGED tools_vars

Init == InitGui(HeaderTables \cup RowTables) /\ NoTools

Spec == Init /\ [][Next]_vars

InitSalary == InitGui(SalaryTables) /\ NoTools

SpecSalary == InitSalary /\ [][Next]_vars

InitLocation == InitGui(LocationTables) /\ NoTools

SpecLocation == InitLocation /\ [][Next]_vars

InitTitle == InitGui(TitleTables) /\ NoTools

SpecTitle == InitTitle /\ [][Next]_vars

----------------------------------------------------------------------------
(* TOOLSGUI.py *)

\* a cell of "Experience (Yrs)": None, NaN or a number of tenths of a year
None == [kind |-> "none", v |-> 0]
NotANumber == [kind |-> "nan", v |-> 0]
Years(tenths) == [kind |-> "num", v |-> tenths]

ExperienceCells == {None, NotANumber} \cup {Years(t) : t \in 0..MaxExperience}

\* a comparison with NaN is False
Less(x, tenths) == x.kind = "num" /\ x.v < tenths
AtLeast(x, tenths) == x.kind = "num" /\ x.v >= tenths

\* the first comparison inclusive
determine_job_level_Inclusive(x) ==
    IF x.kind = "none" THEN "None"
    ELSE IF x.kind = "num" /\ x.v <= 20 THEN "Junior"
    ELSE IF AtLeast(x, 20) /\ Less(x, 50) THEN "Mid-Level"
    ELSE IF AtLeast(x, 50) THEN "Senior"
    ELSE "None"

\* lines 13-22
determine_job_level(x) ==
    IF x.kind = "none" THEN "None"
    ELSE IF Less(x, 20) THEN "Junior"
    ELSE IF AtLeast(x, 20) /\ Less(x, 50) THEN "Mid-Level"
    ELSE IF AtLeast(x, 50) THEN "Senior"
    ELSE "None"

InitTools ==
    /\ experience \in SeqsUpTo(ExperienceCells, MaxToolRows)
    /\ job_level = <<>>
    /\ phase = "idle"
    /\ df = [cols |-> <<>>, rows |-> <<>>]
    /\ df_final = <<>>
    /\ missing = {}
    /\ salary_min = 0
    /\ salary_max = 0
    /\ selected_country = {}
    /\ selected_city = {}
    /\ selected_seniority = {}
    /\ salary_range = <<0, 0>>
    /\ filtered_df = <<>>
    /\ collection = <<>>
    /\ store_status = "none"
    /\ store_log = <<>>

\* line 24: df["Job Level"] = df["Experience (Yrs)"].apply(...)
ComputeJobLevel ==
    /\ phase = "idle"
    /\ job_level = <<>>
    /\ job_level' = [i \in DOMAIN experience |-> determine_job_level(experience[i])]
    /\ UNCHANGED experience
    /\ UNCHANGED gui_vars

NextTools == ComputeJobLevel

SpecTools == InitTools /\ [][NextTools]_vars

----------------------------------------------------------------------------
(* Properties *)

\* result is the subsequence of recs at the positions I, in the order of recs
IsOrderedSubsequence(result, recs, I) ==
    /\ Len(result) = Cardinality(I)
    /\ \A i \in I : result[Cardinality({j \in I : j <= i})] = recs[i]

\* membership in an inclusion set; the empty set does not constrain
Included(c, set) == set = {} \/ (c # NaN /\ \E x \in set : c = <<x>>)

\* min <= SalaryUSD <= max, in whole dollars
WithinRange(c, lo, hi) == c # NaN /\ lo * Scale <= c[1] /\ c[1] <= hi * Scale

\* C1: the filter result is exactly the subsequence, in the original order,
\* of the cleaned records that are in every non-empty inclusion set (an
\* absent attribute is in none) and whose salary is within [min, max]; a
\* range with min > max gives the empty result.
C1_FilterIsOrderedSubsequence ==
    phase = "ready" =>
        /\ IsOrderedSubsequence(filtered_df, df_final,
              {i \in DOMAIN df_final :
                  /\ Included(df_final[i].Country, selected_country)
                  /\ Included(df_final[i].City, selected_city)
                  /\ Included(df_final[i].Seniority, selected_seniority)
                  /\ WithinRange(df_final[i].Salary, salary_range[1], salary_range[2])})
        /\ \A lo \in SliderStops, hi \in SliderStops :
              lo > hi => ApplyFilters(df_final, selected_country, selected_city,
                                      selected_seniority, <<lo, hi>>) = <<>>

\* a country is selected and the slider is moved: a record without Country
\* is dropped, another record remains
C1_Witness ==
    /\ phase = "ready"
    /\ selected_country # {}
    /\ salary_range[2] < salary_max
    /\ \E i \in DOMAIN df_final : df_final[i].Country = NaN /\ df_final[i].Salary # NaN
    /\ Len(filtered_df) >= 1
    /\ Len(filtered_df) < Len(df_final)

\* the widgets as the first run leaves them
DefaultFilter ==
    /\ phase = "ready"
    /\ selected_country = {}
    /\ selected_city = {}
    /\ selected_seniority = {}
    /\ salary_range = <<salary_min, salary_max>>

\* C2 as stated: with empty inclusion sets and the default salary range the
\* filter returns the full Cleaned Record set.
C2_DefaultReturnsAll == DefaultFilter => filtered_df = df_final

IsWhole(v) == v % Scale = 0

\* C2 amended: with empty inclusion sets and the default range
\* [int(global_min), int(global_max)] the filter returns, in the original
\* order, exactly the records whose salary is present and lies between the
\* smallest and the largest present salary, each truncated toward zero; it
\* returns every record when all salaries are present whole numbers.
C2_DefaultReturnsTruncatedRange ==
    DefaultFilter =>
        LET present == {df_final[i].Salary[1] :
                           i \in {k \in DOMAIN df_final : df_final[k].Salary # NaN}}
            lo == Trunc(SetMin(present))
            hi == Trunc(SetMax(present))
        IN  /\ IsOrderedSubsequence(filtered_df, df_final,
                  {i \in DOMAIN df_final : WithinRange(df_final[i].Salary, lo, hi)})
            /\ (\A i \in DOMAIN df_final :
                    df_final[i].Salary # NaN /\ IsWhole(df_final[i].Salary[1]))
                  => filtered_df = df_final

\* the default filter over two records with whole salaries returns both
C2_Witness ==
    /\ DefaultFilter
    /\ Len(df_final) = 2
    /\ filtered_df = df_final
    /\ df_final[1].Salary # df_final[2].Salary

\* the text of a raw salary cell holds a letter
HasLetter(c) == c # NaN /\ \E i \in DOMAIN c[1] : c[1][i] = "x"

\* C3: a record whose salary is absent is never in the filter result,
\* whatever the range and the inclusion sets; a row whose salary text does
\* not parse is kept in the cleaned set, with an absent salary.
C3_AbsentSalaryNeverMatches ==
    phase = "ready" =>
        /\ \A k \in DOMAIN filtered_df : filtered_df[k].Salary # NaN
        /\ LET t == BasicCleaning(df)
           IN  \A i \in DOMAIN t.rows :
                  HasLetter(Cell(t, t.rows[i], SalaryCol)) =>
                     \E k \in DOMAIN df_final :
                        /\ df_final[k].Link = Cell(t, t.rows[i], LinkCol)
                        /\ df_final[k].Salary = NaN

\* a salary text with a letter and a currency sign: the record is in the
\* cleaned set without a salary and the default filter leaves it out
C3_Witness ==
    /\ DefaultFilter
    /\ \E j \in DOMAIN df.rows :
          /\ HasLetter(df.rows[j][1])
          /\ \E i \in DOMAIN df.rows[j][1][1] : df.rows[j][1][1][i] = "$"
    /\ \E k \in DOMAIN df_final : df_final[k].Salary = NaN
    /\ Len(filtered_df) = 1
    /\ Len(df_final) = 2

\* the trimmed names of the columns of the upload with a value in some row
AvailableColumns ==
    {Strip(df.cols[j]) :
        j \in {c \in DOMAIN df.cols : \E i \in DOMAIN df.rows : df.rows[i][c] # <<>>}}

\* C4: ingestion ends in the schema error, with nothing derived, exactly
\* when a required column is not among the trimmed names of the columns that
\* are not null in every record; the reported set is exactly the required
\* columns that are not available.
C4_SchemaErrorExactlyWhenMissing ==
    phase # "uploaded" =>
        /\ phase = "schema_error" <=> ~(required_columns \subseteq AvailableColumns)
        /\ phase = "schema_error" =>
              /\ missing = required_columns \ AvailableColumns
              /\ df_final = <<>>
              /\ filtered_df = <<>>

\* Link is a column of the upload, null in every row, and reported missing,
\* while a padded required column is not reported
C4_Witness ==
    /\ phase = "schema_error"
    /\ \E j \in DOMAIN df.cols : df.cols[j] = LinkCol
    /\ LinkCol \in missing
    /\ \E j \in DOMAIN df.cols :
          /\ df.cols[j] # Strip(df.cols[j])
          /\ Strip(df.cols[j]) \in required_columns \ missing

\* C5: the Cleaned Record set holds no two records with the same Link.
C5_LinksAreUnique ==
    phase \in {"ready", "crashed"} =>
        \A i \in DOMAIN df_final, j \in DOMAIN df_final :
            i # j => df_final[i].Link # df_final[j].Link

\* C6: Seniority of every cleaned record is one of Senior, Junior, Intern,
\* Lead, Manager, or absent.
C6_SeniorityIsAKeyword ==
    phase \in {"ready", "crashed"} =>
        \A i \in DOMAIN df_final :
            \/ df_final[i].Seniority = NaN
            \/ \E k \in Keywords : df_final[i].Seniority = <<<<k>>>>

\* the text before the first comma; absent when it is empty
BeforeFirstComma(s) ==
    LET commas == {i \in DOMAIN s : s[i] = ","}
        first  == IF commas = {} THEN Len(s) + 1
                  ELSE CHOOSE k \in commas : \A l \in commas : k <= l
    IN  IF first = 1 THEN <<>> ELSE <<SubSeq(s, 1, first - 1)>>

\* the text after the last comma without the blanks around it; absent when
\* there is no comma or nothing follows it
TrailingToken(s) ==
    LET commas == {i \in DOMAIN s : s[i] = ","}
        last   == CHOOSE k \in commas : \A l \in commas : k >= l
        token  == Strip(SubSeq(s, last + 1, Len(s)))
    IN  IF commas = {} \/ token = <<>> THEN <<>> ELSE <<token>>

\* C7: City is the text of the location before the first comma and Country
\* is the trailing comma-separated token; without a comma City is the whole
\* location and Country is absent; a null location has no City.
C7_LocationSplit ==
    phase \in {"ready", "crashed"} =>
        \A i \in DOMAIN df_final :
            IF df_final[i].Location = NaN
            THEN df_final[i].City = NaN
            ELSE /\ df_final[i].City = BeforeFirstComma(df_final[i].Location[1])
                 /\ df_final[i].Country = TrailingToken(df_final[i].Location[1])

\* C8: determine_job_level maps x < 2 to Junior, 2 <= x < 5 to Mid-Level,
\* x >= 5 to Senior and a missing experience to absent; the three ranges
\* are disjoint and cover every number.
C8_JobLevelRanges ==
    job_level # <<>> =>
        /\ Len(job_level) = Len(experience)
        /\ \A i \in DOMAIN experience :
              LET x == experience[i]
              IN  /\ job_level[i] \in {"Junior", "Mid-Level", "Senior", "None"}
                  /\ job_level[i] = "Junior" <=> (x.kind = "num" /\ x.v < 20)
                  /\ job_level[i] = "Mid-Level" <=> (x.kind = "num" /\ 20 <= x.v /\ x.v < 50)
                  /\ job_level[i] = "Senior" <=> (x.kind = "num" /\ x.v >= 50)
                  /\ job_level[i] = "None" <=> x.kind # "num"

\* experience 4.9 is Mid-Level
C8_Witness ==
    /\ job_level # <<>>
    /\ experience[1] = Years(49)
    /\ job_level[1] = "Mid-Level"

\* C9: a store that reports success leaves in the collection exactly the
\* full Cleaned Record set, one document per record and nothing of the old
\* contents, whatever the filters are; the filters do not change the set.
C9_StoreHoldsFullCleanedSet ==
    /\ phase = "ready" => df_final = Derive(BasicCleaning(df))
    /\ store_status = "success" =>
          /\ collection = Derive(BasicCleaning(df))
          /\ Len(collection) = Len(df_final)
          /\ \A k \in DOMAIN collection : collection[k] # OldDocument

\* stored with success while the filters hide a record
C9_Witness ==
    /\ store_status = "success"
    /\ selected_city # {}
    /\ Len(filtered_df) < Len(df_final)
    /\ Len(collection) = 2

StoreCalls == <<"connect", "delete_many", "insert_many">>

\* C10: the store runs connect, clear, insert in that order and once; when
\* one of them fails the attempt is reported as failed and never as success;
\* a failure at the connection leaves the collection as it was, a failure
\* after the clear may leave it empty.
C10_StoreOrderAndFailure ==
    /\ [](/\ Len(store_log) <= 3
          /\ store_log = SubSeq(StoreCalls, 1, Len(store_log))
          /\ store_status = "none" <=> store_log = <<>>
          /\ store_status = "success" =>
                store_log = StoreCalls /\ collection = df_final
          /\ (store_log # <<>> /\ Len(store_log) < 3) => store_status = "failed")
    /\ [][store_log' = <<"connect">> => collection' = collection]_vars

\* the insert failed after the clear and the collection is empty
C10_Witness ==
    /\ store_status = "failed"
    /\ store_log = StoreCalls
    /\ collection = <<>>
    /\ df_final # <<>>

====
